---- MODULE Spec2Model ----
(***************************************************************************)
(* Model of route53_backup.py: one Lambda handler that provisions an S3    *)
(* bucket, lists every Route 53 hosted zone and its record sets page by    *)
(* page, serialises each zone to CSV and JSON and uploads both files.      *)
(*                                                                         *)
(* Python strings are modelled as sequences of tokens, so that slicing     *)
(* ([:-1]), concatenation (+) and "/".join(filter(None, ...)) are computed *)
(* as the code computes them.  None and "" are the empty sequence.         *)
(* Every request to S3 or Route 53 is one step; its outcome (success or an *)
(* error) is chosen by the environment.                                    *)
(***************************************************************************)
EXTENDS Integers, Sequences, FiniteSets, TLC

----------------------------------------------------------------------------
(* Bounds of the model *)

MaxZones == 2       \* hosted zones the account holds
MaxPageSize == 2    \* items the listing service returns per page
MaxPages == 4       \* nested calls one listing may make: the recursion
                    \* limit of the interpreter, scaled down
MaxClock == 1       \* clock ticks observed
MaxRuns == 2        \* invocations of lambda_handler in one container
MaxUploads == 2     \* upload_to_s3 calls made by the upload driver
MaxRecords == 2     \* record sets the encoder driver passes in one list

(* Size (in rows / array elements) from which upload_file sends a file in  *)
(* several parts, so that its ETag is not the MD5 of the content.          *)
MultipartThreshold == 4

----------------------------------------------------------------------------
(* Strings *)

None == <<>>

RECURSIVE Concat(_)
Concat(seqs) ==
    IF seqs = <<>> THEN <<>> ELSE Head(seqs) \o Concat(Tail(seqs))

\* filter(None, parts): drops None and empty strings
FilterNone(parts) == SelectSeq(parts, LAMBDA p : p # None)

\* sep.join(parts)
RECURSIVE Join(_, _)
Join(sep, parts) ==
    IF parts = <<>> THEN <<>>
    ELSE IF Len(parts) = 1 THEN parts[1]
    ELSE parts[1] \o sep \o Join(sep, Tail(parts))

\* s[:-1]
ButLast(s) == IF s = <<>> THEN <<>> ELSE SubSeq(s, 1, Len(s) - 1)

\* time.strftime("%Y-%m-%dT%H:%M:%SZ", ...) of the clock value t
Stamps ==
    << "2026-11-04T00:00:00Z", "2026-11-04T00:00:01Z", "2026-11-04T00:00:02Z",
       "2026-11-04T00:00:03Z", "2026-11-04T00:00:04Z", "2026-11-04T00:00:05Z" >>
StrfTime(t) == << Stamps[t + 1] >>

----------------------------------------------------------------------------
(* The Route 53 account: hosted zones in the order the service lists them  *)
(* (by name), and the record sets of each.  Two zones may carry the same   *)
(* name (a public and a private zone of one domain).                       *)

AllZones ==
    << [Id |-> "Z1", Name |-> <<"a.com", ".">>],
       [Id |-> "Z2", Name |-> <<"a.com", ".">>],
       [Id |-> "Z3", Name |-> <<"b.org", ".">>],
       [Id |-> "Z4", Name |-> <<"c.net", ".">>] >>

RecA  == [Name |-> "a.com.", Type |-> "A", TTL |-> "300",
          ResourceRecords |-> << [Value |-> <<"192.0.2.1">>] >>]
RecMX == [Name |-> "a.com.", Type |-> "MX", TTL |-> "300",
          ResourceRecords |-> << [Value |-> <<"10 mx1">>], [Value |-> <<"20 mx2">>] >>]
RecW1 == [Name |-> "www.a.com.", Type |-> "A", TTL |-> "60",
          SetIdentifier |-> "s1", Weight |-> "1",
          ResourceRecords |-> << [Value |-> <<"192.0.2.2">>] >>]
RecW2 == [Name |-> "www.a.com.", Type |-> "A", TTL |-> "60",
          SetIdentifier |-> "s2", Weight |-> "3",
          ResourceRecords |-> << [Value |-> <<"192.0.2.3">>] >>]
RecAlias == [Name |-> "b.org.", Type |-> "A",
             AliasTarget |-> [HostedZoneId |-> "Z9", DNSName |-> "lb.example.",
                              EvaluateTargetHealth |-> "False"]]
RecTXT == [Name |-> "b.org.", Type |-> "TXT", TTL |-> "300",
           ResourceRecords |-> << [Value |-> <<"v=spf1">>] >>]

RecNS == [Name |-> "c.net.", Type |-> "NS", TTL |-> "900",
          ResourceRecords |-> << [Value |-> <<"ns1">>], [Value |-> <<"ns2">>],
                                 [Value |-> <<"ns3">>] >>]
\* a record set that carries neither an alias target nor resource records
RecNeither == [Name |-> "c.net.", Type |-> "SOA", TTL |-> "900"]
\* an alias target next to resource records
RecBoth == [Name |-> "both.c.net.", Type |-> "A",
            AliasTarget |-> [HostedZoneId |-> "Z8", DNSName |-> "cdn.example.",
                             EvaluateTargetHealth |-> "True"],
            ResourceRecords |-> << [Value |-> <<"192.0.2.9">>] >>]
\* an empty list of resource records
RecEmpty == [Name |-> "none.c.net.", Type |-> "TXT", TTL |-> "60",
             ResourceRecords |-> << >>]

RecordsOf(zone_id) ==
    CASE zone_id = "Z1" -> <<RecA, RecMX, RecW1, RecW2>>
      [] zone_id = "Z2" -> <<>>
      [] zone_id = "Z3" -> <<RecAlias, RecTXT>>
      [] zone_id = "Z4" -> <<RecNS, RecNeither>>
      [] OTHER -> <<>>

Min(a, b) == IF a < b THEN a ELSE b

\* the least element of a non-empty set of numbers
Least(S) == CHOOSE x \in S : \A y \in S : x <= y

(* route53.list_hosted_zones_by_name: the page that starts at the zone     *)
(* named by the cursor (DNSName, HostedZoneId), page_size items long.      *)
ListHostedZonesByName(db, cursor, page_size) ==
    LET AtCursor(z) == z.Name = cursor[1] /\ z.Id = cursor[2]
        first == IF cursor = None THEN 1
                 ELSE Least({ i \in 1..Len(db) : AtCursor(db[i]) }
                            \cup { Len(db) + 1 })
        last  == Min(first + page_size - 1, Len(db))
    IN  IF last < Len(db)
        THEN [HostedZones |-> SubSeq(db, first, last), IsTruncated |-> TRUE,
              NextDNSName |-> db[last + 1].Name,
              NextHostedZoneId |-> db[last + 1].Id]
        ELSE [HostedZones |-> SubSeq(db, first, last), IsTruncated |-> FALSE]

(* route53.list_resource_record_sets called with StartRecordName and       *)
(* StartRecordType only: the page starts at the first record set of the    *)
(* zone with that name and type, whatever its SetIdentifier.               *)
ListResourceRecordSets(zone_id, cursor, page_size) ==
    LET db == RecordsOf(zone_id)
        AtCursor(r) == r.Name = cursor[1] /\ r.Type = cursor[2]
        first == IF cursor = None THEN 1
                 ELSE Least({ i \in 1..Len(db) : AtCursor(db[i]) }
                            \cup { Len(db) + 1 })
        last  == Min(first + page_size - 1, Len(db))
    IN  IF last < Len(db)
        THEN [ResourceRecordSets |-> SubSeq(db, first, last),
              IsTruncated |-> TRUE,
              NextRecordName |-> db[last + 1].Name,
              NextRecordType |-> db[last + 1].Type]
        ELSE [ResourceRecordSets |-> SubSeq(db, first, last),
              IsTruncated |-> FALSE]

----------------------------------------------------------------------------
(* Record Encoder and Zone Serializer *)

\* the value try_record returns for a missing field
Empty == ""
\* "" used as a field holder: every lookup in it fails (TypeError)
NotADict == [k \in {} |-> Empty]

try_record(test, record) ==
    IF test \in DOMAIN record THEN record[test] ELSE Empty

\* try_record(test, record) whose result is used as the record of another
\* try_record
try_holder(test, record) ==
    IF test \in DOMAIN record THEN record[test] ELSE NotADict

\* get_record_value that prefers the resource records to the alias target
get_record_value_plain_first(record) ==
    IF "ResourceRecords" \in DOMAIN record
    THEN [raised |-> "",
          value |-> [i \in 1..Len(record.ResourceRecords) |->
                        record.ResourceRecords[i].Value]]
    ELSE IF "AliasTarget" \in DOMAIN record
         THEN [raised |-> "",
               value |-> << Join(<<":">>, << <<"ALIAS">>,
                                      <<record.AliasTarget.HostedZoneId>>,
                                      <<record.AliasTarget.DNSName>> >>) >>]
         ELSE [raised |-> "KeyError", value |-> <<>>]

\* get_record_value that takes a record of neither shape to have no value
get_record_value_lenient(record) ==
    IF "AliasTarget" \in DOMAIN record
    THEN [raised |-> "",
          value |-> << Join(<<":">>, << <<"ALIAS">>,
                                 <<record.AliasTarget.HostedZoneId>>,
                                 <<record.AliasTarget.DNSName>> >>) >>]
    ELSE IF "ResourceRecords" \in DOMAIN record
         THEN [raised |-> "",
               value |-> [i \in 1..Len(record.ResourceRecords) |->
                             record.ResourceRecords[i].Value]]
         ELSE [raised |-> "", value |-> <<>>]

\* get_record_value: [raised, value]
get_record_value(record) ==
    IF "AliasTarget" \in DOMAIN record
       /\ "HostedZoneId" \in DOMAIN record.AliasTarget
       /\ "DNSName" \in DOMAIN record.AliasTarget
    THEN [raised |-> "",
          value |-> << Join(<<":">>, << <<"ALIAS">>,
                                 <<record.AliasTarget.HostedZoneId>>,
                                 <<record.AliasTarget.DNSName>> >>) >>]
    ELSE IF "ResourceRecords" \in DOMAIN record
         THEN [raised |-> "",
               value |-> [i \in 1..Len(record.ResourceRecords) |->
                             record.ResourceRecords[i].Value]]
         ELSE [raised |-> "KeyError", value |-> <<>>]

Header ==
    << "NAME", "TYPE", <<"VALUE">>, "TTL", "REGION", "WEIGHT", "SETID",
       "FAILOVER", "EVALUATE_HEALTH" >>

\* RowsOf with writerow after the inner loop: one row per record, holding
\* its last value
RowsOfLast(record) ==
    LET csv_row == << record.Name, record.Type, <<>>,
                      try_record("TTL", record),
                      try_record("Region", record),
                      try_record("Weight", record),
                      try_record("SetIdentifier", record),
                      try_record("Failover", record),
                      try_record("EvaluateTargetHealth",
                                 try_holder("AliasTarget", record)) >>
        value == get_record_value(record).value
    IN  IF value = <<>> THEN <<>>
        ELSE << [csv_row EXCEPT ![3] = value[Len(value)]] >>

\* the rows the inner loop of write_zone_to_csv writes for one record
RowsOf(record) ==
    LET csv_row == << record.Name, record.Type, <<>>,
                      try_record("TTL", record),
                      try_record("Region", record),
                      try_record("Weight", record),
                      try_record("SetIdentifier", record),
                      try_record("Failover", record),
                      try_record("EvaluateTargetHealth",
                                 try_holder("AliasTarget", record)) >>
        value == get_record_value(record).value
    IN  [i \in 1..Len(value) |-> [csv_row EXCEPT ![3] = value[i]]]

\* the rows written for the records up to the first one that raises
RECURSIVE DataRows(_)
DataRows(zone_records) ==
    IF zone_records = <<>> THEN <<>>
    ELSE IF get_record_value(Head(zone_records)).raised # "" THEN <<>>
    ELSE RowsOf(Head(zone_records)) \o DataRows(Tail(zone_records))

write_zone_to_csv(zone, zone_records) ==
    [zone_file_name |-> <<"/tmp/">> \o zone.Name \o <<"csv">>,
     raised |-> IF \E i \in 1..Len(zone_records) :
                      get_record_value(zone_records[i]).raised # ""
                THEN "KeyError" ELSE "",
     content |-> [fmt |-> "csv", data |-> <<Header>> \o DataRows(zone_records)]]

write_zone_to_json(zone, zone_records) ==
    [zone_file_name |-> <<"/tmp/">> \o zone.Name \o <<"json">>,
     raised |-> "",
     content |-> [fmt |-> "json", data |-> zone_records]]

----------------------------------------------------------------------------
(* Checksums.  MD5 is taken to be free of collisions.                       *)

Size(content) == Len(content.data)

\* md5(f.read()).hexdigest().join(['"', '"'])
LocalETag(content) == [quoted |-> [alg |-> "md5", of |-> content]]

(* The ETag S3 reports for an object written by upload_file: the MD5 of    *)
(* the content for a single-part upload, a digest of the part digests for  *)
(* a file large enough to be sent in parts.                                *)
S3ETag(content) ==
    IF Size(content) >= MultipartThreshold
    THEN [quoted |-> [alg |-> "md5-of-parts", of |-> content]]
    ELSE [quoted |-> [alg |-> "md5", of |-> content]]

----------------------------------------------------------------------------
(* State *)

VARIABLES
    s3_bucket_versioned,  \* module globals read from the environment
    s3_bucket_folder,
    s3_bucket_region,
    bucket,               \* the S3 bucket: exists, Status, PublicAccessBlock
    objects,              \* key -> versions of the object, the last is current
    zones_db,             \* hosted zones of the account, as the service lists them
    max_items,            \* page size of the listing service
    clock,                \* wall clock, in seconds
    tmp,                  \* files under /tmp: name -> content
    pc,                   \* position of the handler
    time_stamp,           \* lambda_handler.time_stamp
    next_zone,            \* get_route53_hosted_zones.next_zone of the innermost call
    zone_pages,           \* response pages held by the enclosing recursive calls
    hosted_zones,         \* lambda_handler.hosted_zones
    zi,                   \* index of the loop variable zone in hosted_zones
    zone_folder,          \* lambda_handler.zone_folder
    next_record,          \* get_route53_zone_records.next_record
    record_pages,         \* response pages held by the enclosing recursive calls
    zone_records,         \* lambda_handler.zone_records
    up,                   \* arguments of the upload_to_s3 call in progress
    calls,                \* requests issued by the current invocation, with results
    runs,                 \* invocations started
    bucket_at_entry,      \* the bucket as the current invocation found it
    uploads,              \* upload_to_s3 calls made by the upload driver
    result,               \* what lambda_handler returned, NoResult before that
    returned              \* results of the get_record_value calls of the
                          \* encoder driver

config == << s3_bucket_versioned, s3_bucket_folder, s3_bucket_region >>
service == << zones_db, max_items >>
history == << runs, bucket_at_entry >>
zone_listing == << next_zone, zone_pages, hosted_zones >>
record_listing == << next_record, record_pages, zone_records >>
vars == << s3_bucket_versioned, s3_bucket_folder, s3_bucket_region, bucket,
           objects, zones_db, max_items, clock, tmp, pc, time_stamp,
           next_zone, zone_pages, hosted_zones, zi, zone_folder, next_record,
           record_pages, zone_records, up, calls, runs, bucket_at_entry,
           uploads, result, returned >>

s3_bucket_name == "backup-bucket"

\* lambda_handler.gen_folder; zone = NoZone stands for the default dict()
NoZone == [k \in {} |-> Empty]

\* gen_folder that formats the time anew at every call
gen_folder_now(zone, folder, stamp) ==
    Join(<<"/">>,
         FilterNone(<< folder, StrfTime(clock),
                       ButLast(IF "Name" \in DOMAIN zone
                               THEN zone.Name ELSE <<>>) >>))

gen_folder(zone, folder, stamp) ==
    Join(<<"/">>,
         FilterNone(<< folder, stamp,
                       ButLast(IF "Name" \in DOMAIN zone
                               THEN zone.Name ELSE <<>>) >>))

\* first statement of upload_to_s3
UploadKey(folder, key) == Join(<<"/">>, FilterNone(<< folder, key >>))

\* values lambda_handler returns, with their Python type; NoResult while it
\* runs and after an exception
Digits == << "0", "1", "2", "3", "4", "5", "6", "7", "8", "9" >>
NoResult == [type |-> "", repr |-> ""]
PyBool(b) == [type |-> "bool", repr |-> IF b THEN "True" ELSE "False"]
PyInt(n) == [type |-> "int", repr |-> Digits[n + 1]]

NoUpload == [filename |-> <<>>, key |-> <<>>, ext |-> "", caller |-> ""]
NoFiles == [k \in {} |-> [fmt |-> "", data |-> <<>>]]
NoObjects == [k \in {} |-> <<>>]

\* f with x mapped to v
Put(f, x, v) == [k \in DOMAIN f \cup {x} |-> IF k = x THEN v ELSE f[k]]

\* one entry of the request log
Call(op, req, err, resp, zone, ext) ==
    [op |-> op, req |-> req, err |-> err, resp |-> resp,
     zone |-> zone, ext |-> ext]

\* error codes: 404 is not-found, 403 stands for every other ClientError
OtherError == "403"

\* the sorted sub-lists of AllZones of at most MaxZones zones
RECURSIVE Pick(_, _)
Pick(S, i) ==
    IF i > Len(AllZones) THEN <<>>
    ELSE IF i \in S THEN <<AllZones[i]>> \o Pick(S, i + 1)
    ELSE Pick(S, i + 1)
Accounts ==
    { Pick(S, 1) : S \in { T \in SUBSET (1..Len(AllZones)) :
                               Cardinality(T) <= MaxZones } }

Buckets ==
    { [exists |-> FALSE, Status |-> "", PublicAccessBlock |-> FALSE] }
    \cup [exists : {TRUE}, Status : {"", "Enabled", "Suspended"},
          PublicAccessBlock : {TRUE}]

Init ==
    /\ s3_bucket_versioned \in BOOLEAN
    /\ s3_bucket_folder \in { None, <<"backups">> }
    /\ s3_bucket_region \in { "us-east-1", "eu-west-1" }
    /\ bucket \in Buckets
    /\ objects = NoObjects
    /\ zones_db \in Accounts
    /\ max_items \in 1..MaxPageSize
    /\ clock = 0
    /\ tmp = NoFiles
    /\ pc = "idle"
    /\ time_stamp = None
    /\ next_zone = None
    /\ zone_pages = <<>>
    /\ hosted_zones = <<>>
    /\ zi = 0
    /\ zone_folder = None
    /\ next_record = None
    /\ record_pages = <<>>
    /\ zone_records = <<>>
    /\ up = NoUpload
    /\ calls = <<>>
    /\ runs = 0
    /\ bucket_at_entry = bucket
    /\ uploads = <<>>
    /\ result = NoResult
    /\ returned = <<>>

----------------------------------------------------------------------------
(* lambda_handler, up to the end of create_s3_bucket *)

Returned == { "idle", "done", "returned_false", "thrown" }

\* lines 232-239: a new invocation takes its time stamp
Invoke ==
    /\ pc \in Returned
    /\ runs < MaxRuns
    /\ runs' = runs + 1
    /\ time_stamp' = StrfTime(clock)
    /\ pc' = "head_bucket"
    /\ next_zone' = None /\ zone_pages' = <<>> /\ hosted_zones' = <<>>
    /\ zi' = 0 /\ zone_folder' = None
    /\ next_record' = None /\ record_pages' = <<>> /\ zone_records' = <<>>
    /\ up' = NoUpload
    /\ calls' = <<>>
    /\ bucket_at_entry' = bucket
    /\ result' = NoResult
    /\ UNCHANGED << config, service, bucket, objects, clock, tmp, uploads,
                    returned >>

Tick ==
    /\ clock < MaxClock
    /\ clock' = clock + 1
    /\ UNCHANGED << config, service, bucket, objects, tmp, pc, time_stamp,
                    zone_listing, zi, zone_folder, record_listing, up, calls,
                    history, uploads, result, returned >>

\* lines 240-241: lambda_handler returns False if create_s3_bucket returned
\* None
AfterCreateS3Bucket(position) ==
    IF position = "returned_false" THEN PyBool(FALSE) ELSE NoResult

\* where create_s3_bucket goes after head_bucket answered err (lines 39, 53-56)
AfterHeadBucket(err) ==
    IF err = "" THEN "get_bucket_versioning"
    ELSE IF err # "404" THEN "returned_false"
    ELSE "create_bucket"

\* s3.head_bucket and the handling of its ClientError
HeadBucket ==
    /\ pc = "head_bucket"
    /\ \E err \in (IF bucket.exists THEN {""} ELSE {"404"}) \cup {OtherError} :
          /\ calls' = Append(calls, Call("head_bucket",
                        [Bucket |-> s3_bucket_name], err, [k \in {} |-> ""], 0, ""))
          /\ pc' = AfterHeadBucket(err)
          /\ result' = AfterCreateS3Bucket(AfterHeadBucket(err))
    /\ UNCHANGED << config, service, bucket, objects, clock, tmp, time_stamp,
                    zone_listing, zi, zone_folder, record_listing, up, history,
                    uploads, returned >>

\* AfterGetBucketVersioning that locks down every bucket it accepts
AfterGetBucketVersioningRelock(err, status, desired) ==
    LET versioning == (status = "Enabled")
    IN  IF err # "" THEN "returned_false"
        ELSE IF versioning # desired THEN "thrown"
        ELSE "put_public_access_block"

\* AfterGetBucketVersioning that only refuses a bucket lacking versioning
AfterGetBucketVersioningOneWay(err, status, desired) ==
    LET versioning == (status = "Enabled")
    IN  IF err # "" THEN "returned_false"
        ELSE IF desired /\ ~versioning THEN "thrown"
        ELSE "list_hosted_zones_by_name"

\* where create_s3_bucket goes after get_bucket_versioning (lines 41-56)
AfterGetBucketVersioning(err, status, desired) ==
    LET versioning == (status = "Enabled")
    IN  IF err # "" THEN "returned_false"
        ELSE IF versioning # desired THEN "thrown"
        ELSE "list_hosted_zones_by_name"

\* s3.get_bucket_versioning and the versioning check
GetBucketVersioning ==
    /\ pc = "get_bucket_versioning"
    /\ \E err \in {"", OtherError} :
          LET response == [Status |-> bucket.Status]
          IN  /\ calls' = Append(calls, Call("get_bucket_versioning",
                            [Bucket |-> s3_bucket_name], err, response, 0, ""))
              /\ pc' = AfterGetBucketVersioning(err, response.Status,
                                                  s3_bucket_versioned)
              /\ result' = AfterCreateS3Bucket(
                     AfterGetBucketVersioning(err, response.Status,
                                              s3_bucket_versioned))
    /\ UNCHANGED << config, service, bucket, objects, clock, tmp, time_stamp,
                    zone_listing, zi, zone_folder, record_listing, up, history,
                    uploads, returned >>

\* the request create_s3_bucket sends for a region
CreateBucketRequest(bucket_name, bucket_region) ==
    IF bucket_region = "us-east-1"
    THEN [ACL |-> "private", Bucket |-> bucket_name,
          LocationConstraint |-> ""]
    ELSE [ACL |-> "private", Bucket |-> bucket_name,
          LocationConstraint |-> bucket_region]

\* AfterCreateBucket that leaves the new bucket as create_bucket made it
AfterCreateBucketAsIs(err, location) ==
    IF err # "" THEN "thrown" ELSE "list_hosted_zones_by_name"

\* lines 58-70: a ClientError of create_bucket is not caught; a response
\* with a Location is followed by put_public_access_block
AfterCreateBucket(err, location) ==
    IF err # "" THEN "thrown"
    ELSE IF location # None THEN "put_public_access_block"
    ELSE "list_hosted_zones_by_name"

\* s3.create_bucket; its response carries the Location of the new bucket
CreateBucket ==
    /\ pc = "create_bucket"
    /\ \E err \in {"", OtherError} :
          LET response == [Location |-> <<"/", s3_bucket_name>>]
          IN  /\ calls' = Append(calls, Call("create_bucket",
                            CreateBucketRequest(s3_bucket_name, s3_bucket_region),
                            err, response, 0, ""))
              /\ bucket' = IF err # "" THEN bucket
                           ELSE [exists |-> TRUE, Status |-> "",
                                 PublicAccessBlock |-> FALSE]
              /\ pc' = AfterCreateBucket(err, response.Location)
    /\ UNCHANGED << config, service, objects, clock, tmp, time_stamp,
                    zone_listing, zi, zone_folder, record_listing, up, history,
                    uploads, result, returned >>

\* AfterPutPublicAccessBlock that never enables versioning
AfterPutPublicAccessBlockOnly(desired) == "list_hosted_zones_by_name"

\* lines 79-83: versioning is enabled on a new bucket if desired
AfterPutPublicAccessBlock(desired) ==
    IF desired THEN "put_bucket_versioning" ELSE "list_hosted_zones_by_name"

PutPublicAccessBlock ==
    /\ pc = "put_public_access_block"
    /\ \E err \in {"", OtherError} :
          /\ calls' = Append(calls, Call("put_public_access_block",
                        [Bucket |-> s3_bucket_name], err, [k \in {} |-> ""], 0, ""))
          /\ bucket' = IF err # "" THEN bucket
                       ELSE [bucket EXCEPT !.PublicAccessBlock = TRUE]
          /\ pc' = IF err # "" THEN "thrown"
                   ELSE AfterPutPublicAccessBlock(s3_bucket_versioned)
    /\ UNCHANGED << config, service, objects, clock, tmp, time_stamp,
                    zone_listing, zi, zone_folder, record_listing, up, history,
                    uploads, result, returned >>

PutBucketVersioning ==
    /\ pc = "put_bucket_versioning"
    /\ \E err \in {"", OtherError} :
          /\ calls' = Append(calls, Call("put_bucket_versioning",
                        [Bucket |-> s3_bucket_name, Status |-> "Enabled"],
                        err, [k \in {} |-> ""], 0, ""))
          /\ bucket' = IF err # "" THEN bucket
                       ELSE [bucket EXCEPT !.Status = "Enabled"]
          /\ pc' = IF err # "" THEN "thrown" ELSE "list_hosted_zones_by_name"
    /\ UNCHANGED << config, service, objects, clock, tmp, time_stamp,
                    zone_listing, zi, zone_folder, record_listing, up, history,
                    uploads, result, returned >>

----------------------------------------------------------------------------
(* The zone loop of lambda_handler and upload_to_s3 *)

\* lines 91, 108: the first request of upload_to_s3
FirstRequest(versioned) == IF versioned THEN "head_object" ELSE "upload_file"

\* lambda_handler_return that returns the number of zones backed up
lambda_handler_count(hz) == PyInt(Len(hz))

\* line 266: what lambda_handler returns after the loop over hz
lambda_handler_return(hz) == PyBool(TRUE)

\* head of "for zone in hosted_zones" for the i-th zone of hz
BeginZone(i, hz) ==
    /\ next_record' = None
    /\ record_pages' = <<>>
    /\ IF i > Len(hz)
       THEN /\ pc' = "done"
            /\ result' = lambda_handler_return(hz)
            /\ UNCHANGED << zi, zone_folder >>
       ELSE /\ zi' = i
            /\ result' = result
            /\ zone_folder' = gen_folder(hz[i], s3_bucket_folder, time_stamp)
            /\ pc' = "list_resource_record_sets"

\* StartUpload with the two formats exchanged: JSON goes first
StartUploadSwapped(zone, records, ext, folder) ==
    LET other == IF ext = "csv" THEN "json" ELSE "csv"
        w == IF other = "csv" THEN write_zone_to_csv(zone, records)
             ELSE write_zone_to_json(zone, records)
    IN  /\ tmp' = Put(tmp, w.zone_file_name, w.content)
        /\ IF w.raised # ""
           THEN pc' = "thrown" /\ up' = up
           ELSE /\ up' = [filename |-> w.zone_file_name,
                          key |-> UploadKey(folder, zone.Name \o <<other>>),
                          ext |-> other, caller |-> "lambda_handler"]
                /\ pc' = FirstRequest(s3_bucket_versioned)

\* write_zone_to_csv / write_zone_to_json followed by the entry of
\* upload_to_s3 up to its first request
StartUpload(zone, records, ext, folder) ==
    LET w == IF ext = "csv" THEN write_zone_to_csv(zone, records)
             ELSE write_zone_to_json(zone, records)
    IN  /\ tmp' = Put(tmp, w.zone_file_name, w.content)
        /\ IF w.raised # ""
           THEN pc' = "thrown" /\ up' = up
           ELSE /\ up' = [filename |-> w.zone_file_name,
                          key |-> UploadKey(folder, zone.Name \o <<ext>>),
                          ext |-> ext, caller |-> "lambda_handler"]
                /\ pc' = FirstRequest(s3_bucket_versioned)

\* what follows the return of upload_to_s3
UploadReturn ==
    IF up.caller = "lambda_handler"
    THEN IF up.ext = "csv"
         THEN /\ StartUpload(hosted_zones[zi], zone_records, "json", zone_folder)
              /\ UNCHANGED << zi, zone_folder, next_record, record_pages,
                              result >>
         ELSE /\ BeginZone(zi + 1, hosted_zones)
              /\ UNCHANGED << up, tmp >>
    ELSE /\ pc' = "upload_returned"
         /\ UNCHANGED << up, tmp, zi, zone_folder, next_record, record_pages,
                         result >>

\* Unwind with "=" in place of "+=": only the last page survives
UnwindOverwrite(pages) == pages[Len(pages)]

\* the list the outermost call returns: each call returns its page followed
\* by the result of the call it made (lines 119-125, 138-144)
RECURSIVE Unwind(_)
Unwind(pages) ==
    IF Len(pages) = 1 THEN pages[1]
    ELSE pages[1] \o Unwind(Tail(pages))

\* the cursor the next call gets, None when the response is complete
ZoneCursor(response) ==
    IF response.IsTruncated
    THEN << response.NextDNSName, response.NextHostedZoneId >>
    ELSE None

\* RecordCursor that loses the cursor: the next call starts over
RecordCursorDropped(response) == None

RecordCursor(response) ==
    IF response.IsTruncated
    THEN << response.NextRecordName, response.NextRecordType >>
    ELSE None

\* lines 122, 141: a listing call that holds a truncated page calls itself;
\* the call fails with RecursionError once depth calls are already nested
\* and the recursion limit is reached
CanRecurse(depth) == depth < MaxPages

\* one call of get_route53_hosted_zones: a request, and the recursion or
\* the return of the whole chain of calls
ListHostedZones ==
    /\ pc = "list_hosted_zones_by_name"
    /\ \E err \in {"", OtherError} :
          LET response == ListHostedZonesByName(zones_db, next_zone, max_items)
              request == IF next_zone # None
                         THEN [DNSName |-> next_zone[1],
                               HostedZoneId |-> next_zone[2]]
                         ELSE [k \in {} |-> ""]
              pages == Append(zone_pages, response.HostedZones)
          IN  /\ calls' = Append(calls, Call("list_hosted_zones_by_name",
                                             request, err, response, 0, ""))
              /\ IF err # ""
                 THEN /\ pc' = "thrown"
                      /\ UNCHANGED << zone_listing, zi, zone_folder,
                                      next_record, record_pages, result >>
                 ELSE IF response.IsTruncated /\ ~CanRecurse(Len(pages))
                 THEN /\ pc' = "thrown"
                      /\ UNCHANGED << zone_listing, zi, zone_folder,
                                      next_record, record_pages, result >>
                 ELSE IF response.IsTruncated
                 THEN /\ next_zone' = ZoneCursor(response)
                      /\ zone_pages' = pages
                      /\ UNCHANGED << pc, hosted_zones, zi, zone_folder,
                                      next_record, record_pages, result >>
                 ELSE /\ hosted_zones' = Unwind(pages)
                      /\ zone_pages' = <<>>
                      /\ next_zone' = None
                      /\ BeginZone(1, Unwind(pages))
    /\ UNCHANGED << config, service, bucket, objects, clock, tmp, time_stamp,
                    zone_records, up, history,
                    uploads, returned >>

\* one call of get_route53_zone_records; on return of the chain the zone is
\* written to CSV and its upload starts
ListRecords ==
    /\ pc = "list_resource_record_sets"
    /\ \E err \in {"", OtherError} :
          LET zone == hosted_zones[zi]
              response == ListResourceRecordSets(zone.Id, next_record, max_items)
              request == IF next_record # None
                         THEN [HostedZoneId |-> zone.Id,
                               StartRecordName |-> next_record[1],
                               StartRecordType |-> next_record[2]]
                         ELSE [HostedZoneId |-> zone.Id]
              pages == Append(record_pages, response.ResourceRecordSets)
          IN  /\ calls' = Append(calls, Call("list_resource_record_sets",
                                             request, err, response, zi, ""))
              /\ IF err # ""
                 THEN /\ pc' = "thrown"
                      /\ UNCHANGED << record_listing, up, tmp >>
                 ELSE IF response.IsTruncated /\ ~CanRecurse(Len(pages))
                 THEN /\ pc' = "thrown"
                      /\ UNCHANGED << record_listing, up, tmp >>
                 ELSE IF response.IsTruncated
                 THEN /\ next_record' = RecordCursor(response)
                      /\ record_pages' = pages
                      /\ UNCHANGED << pc, zone_records, up, tmp >>
                 ELSE \E records \in { Unwind(pages) } :
                      /\ zone_records' = records
                      /\ record_pages' = <<>>
                      /\ next_record' = None
                      /\ StartUpload(zone, records, "csv", zone_folder)
    /\ UNCHANGED << config, service, bucket, objects, clock, time_stamp,
                    zone_listing, zi, zone_folder, history, uploads, result,
                    returned >>

\* MustWrite that writes an existing object only if it is absent
MustWriteAbsentOnly(err, etag, local) == err = "404"

\* MustWrite that takes every ClientError of head_object for not-found
MustWriteAnyError(err, etag, local) == err # "" \/ local # etag

\* MustWrite with the comparison inverted: an object is written again only
\* if it already holds the file
MustWriteInverted(err, etag, local) == err = "404" \/ (err = "" /\ local = etag)

\* lines 93-107: TRUE if upload_to_s3 goes on to upload_file after
\* head_object answered err / etag for a file of checksum local
MustWrite(err, etag, local) == err = "404" \/ (err = "" /\ local # etag)

\* s3.head_object of the versioned branch and the ETag comparison
HeadObject ==
    /\ pc = "head_object"
    /\ \E err \in (IF up.key \in DOMAIN objects THEN {""} ELSE {"404"})
                     \cup {OtherError} :
          LET response == IF err = ""
                          THEN [ETag |-> objects[up.key][Len(objects[up.key])].ETag]
                          ELSE [ETag |-> LocalETag([fmt |-> "", data |-> <<>>])]
              request == [Bucket |-> s3_bucket_name, Key |-> up.key,
                          file |-> tmp[up.filename]]
          IN  /\ calls' = Append(calls, Call("head_object", request, err,
                                             response, zi, up.ext))
              /\ IF MustWrite(err, response.ETag, LocalETag(tmp[up.filename]))
                 THEN /\ pc' = "upload_file"
                      /\ UNCHANGED << up, tmp, zi, zone_folder, next_record,
                                      record_pages, result >>
                 ELSE IF err # ""
                 THEN /\ pc' = "thrown"
                      /\ UNCHANGED << up, tmp, zi, zone_folder, next_record,
                                      record_pages, result >>
                 ELSE UploadReturn
    /\ UNCHANGED << config, service, bucket, objects, clock, time_stamp,
                    zone_listing, zone_records, history, uploads, returned >>

\* the object S3 holds after upload_file wrote content
StoredObject(content) == [Body |-> content, ETag |-> S3ETag(content)]

\* s3.upload_file
UploadFile ==
    /\ pc = "upload_file"
    /\ \E err \in {"", OtherError} :
          LET request == [Bucket |-> s3_bucket_name, Key |-> up.key,
                          file |-> tmp[up.filename]]
              versions == IF bucket.Status = "Enabled" /\ up.key \in DOMAIN objects
                          THEN objects[up.key] ELSE <<>>
          IN  /\ calls' = Append(calls, Call("upload_file", request, err,
                                             [k \in {} |-> ""], zi, up.ext))
              /\ IF err # ""
                 THEN /\ pc' = "thrown"
                      /\ UNCHANGED << objects, up, tmp, zi, zone_folder,
                                      next_record, record_pages, result >>
                 ELSE /\ objects' = Put(objects, up.key,
                              Append(versions, StoredObject(tmp[up.filename])))
                      /\ UploadReturn
    /\ UNCHANGED << config, service, bucket, clock, time_stamp, zone_listing,
                    zone_records, history, uploads, returned >>

----------------------------------------------------------------------------
(* upload_to_s3 called on its own: a driver calls it MaxUploads times with *)
(* files and keys of its choice, against an existing bucket whose          *)
(* versioning is as configured and that holds no object yet.               *)

DriverFiles ==
    { write_zone_to_csv(AllZones[i], RecordsOf(AllZones[i].Id)).content :
          i \in 1..Len(AllZones) }
    \cup { write_zone_to_json(AllZones[i], RecordsOf(AllZones[i].Id)).content :
              i \in 1..Len(AllZones) }
DriverKeys == { <<"a.com", ".", "csv">>, <<"b.org", ".", "csv">> }

InitUpload ==
    /\ s3_bucket_versioned \in BOOLEAN
    /\ s3_bucket_folder \in { None, <<"backups">> }
    /\ s3_bucket_region = "us-east-1"
    /\ bucket = [exists |-> TRUE,
                 Status |-> IF s3_bucket_versioned THEN "Enabled" ELSE "",
                 PublicAccessBlock |-> TRUE]
    /\ objects = NoObjects
    /\ zones_db = <<>>
    /\ max_items = 1
    /\ clock = 0
    /\ tmp = NoFiles
    /\ pc = "driver"
    /\ time_stamp = None
    /\ next_zone = None
    /\ zone_pages = <<>>
    /\ hosted_zones = <<>>
    /\ zi = 0
    /\ zone_folder = None
    /\ next_record = None
    /\ record_pages = <<>>
    /\ zone_records = <<>>
    /\ up = NoUpload
    /\ calls = <<>>
    /\ runs = 0
    /\ bucket_at_entry = bucket
    /\ uploads = <<>>
    /\ result = NoResult
    /\ returned = <<>>

\* upload_to_s3(filename, bucket_name, key, folder) up to its first request
CallUpload ==
    /\ pc \in { "driver", "upload_returned" }
    /\ Len(uploads) < MaxUploads
    /\ \E content \in DriverFiles, key \in DriverKeys :
          LET filename == <<"/tmp/">> \o key
          IN  /\ tmp' = Put(tmp, filename, content)
              /\ up' = [filename |-> filename,
                        key |-> UploadKey(s3_bucket_folder, key),
                        ext |-> "csv", caller |-> "driver"]
              /\ uploads' = Append(uploads,
                     [key |-> UploadKey(s3_bucket_folder, key),
                      content |-> content, first |-> Len(calls) + 1])
    /\ pc' = FirstRequest(s3_bucket_versioned)
    /\ UNCHANGED << config, service, bucket, objects, clock, time_stamp,
                    zone_listing, zi, zone_folder, record_listing, calls,
                    history, result, returned >>

NextUpload ==
    \/ CallUpload
    \/ HeadObject
    \/ UploadFile

UploadSpec == InitUpload /\ [][NextUpload]_vars

----------------------------------------------------------------------------
(* get_record_value, write_zone_to_csv and write_zone_to_json called on    *)
(* their own: a driver holds a zone and a list of at most MaxRecords       *)
(* record sets of any shape, calls get_record_value on each of them, then  *)
(* writes the list to CSV and, if that did not raise, to JSON.             *)

Records == { RecA, RecMX, RecW1, RecAlias, RecNS, RecNeither, RecBoth, RecEmpty }
RecordLists == UNION { [1..n -> Records] : n \in 0..MaxRecords }

InitEncoder ==
    /\ s3_bucket_versioned = FALSE
    /\ s3_bucket_folder = None
    /\ s3_bucket_region = "us-east-1"
    /\ bucket = [exists |-> TRUE, Status |-> "", PublicAccessBlock |-> TRUE]
    /\ objects = NoObjects
    /\ zones_db = <<>>
    /\ max_items = 1
    /\ clock = 0
    /\ tmp = NoFiles
    /\ pc = "encoder"
    /\ time_stamp = None
    /\ next_zone = None
    /\ zone_pages = <<>>
    /\ hosted_zones \in { <<AllZones[1]>>, <<AllZones[3]>> }
    /\ zi = 1
    /\ zone_folder = None
    /\ next_record = None
    /\ record_pages = <<>>
    /\ zone_records \in RecordLists
    /\ up = NoUpload
    /\ calls = <<>>
    /\ runs = 0
    /\ bucket_at_entry = bucket
    /\ uploads = <<>>
    /\ result = NoResult
    /\ returned = <<>>

\* get_record_value(record) for the next record of the list
CallGetRecordValue ==
    /\ pc = "encoder"
    /\ Len(returned) < Len(zone_records)
    /\ returned' = Append(returned,
                          get_record_value(zone_records[Len(returned) + 1]))
    /\ UNCHANGED << config, service, bucket, objects, clock, tmp, pc,
                    time_stamp, zone_listing, zi, zone_folder, record_listing,
                    up, calls, history, uploads, result >>

\* write_zone_to_csv(zone, zone_records)
CallWriteZoneToCsv ==
    /\ pc = "encoder"
    /\ Len(returned) = Len(zone_records)
    /\ LET w == write_zone_to_csv(hosted_zones[zi], zone_records)
       IN  /\ tmp' = Put(tmp, w.zone_file_name, w.content)
           /\ pc' = IF w.raised # "" THEN "thrown" ELSE "csv_written"
    /\ UNCHANGED << config, service, bucket, objects, clock, time_stamp,
                    zone_listing, zi, zone_folder, record_listing, up, calls,
                    history, uploads, result, returned >>

\* write_zone_to_json(zone, zone_records)
CallWriteZoneToJson ==
    /\ pc = "csv_written"
    /\ LET w == write_zone_to_json(hosted_zones[zi], zone_records)
       IN  /\ tmp' = Put(tmp, w.zone_file_name, w.content)
           /\ pc' = IF w.raised # "" THEN "thrown" ELSE "json_written"
    /\ UNCHANGED << config, service, bucket, objects, clock, time_stamp,
                    zone_listing, zi, zone_folder, record_listing, up, calls,
                    history, uploads, result, returned >>

NextEncoder ==
    \/ CallGetRecordValue
    \/ CallWriteZoneToCsv
    \/ CallWriteZoneToJson

EncoderSpec == InitEncoder /\ [][NextEncoder]_vars

----------------------------------------------------------------------------
Next ==
    \/ Invoke
    \/ Tick
    \/ HeadBucket
    \/ GetBucketVersioning
    \/ CreateBucket
    \/ PutPublicAccessBlock
    \/ PutBucketVersioning
    \/ ListHostedZones
    \/ ListRecords
    \/ HeadObject
    \/ UploadFile

Spec == Init /\ [][Next]_vars

(* The handler as it is scheduled: a single thread of synchronous calls,   *)
(* each of which returns, so that a started invocation always takes its    *)
(* next step.  When an invocation starts is up to the caller.              *)
HandlerStep ==
    \/ HeadBucket
    \/ GetBucketVersioning
    \/ CreateBucket
    \/ PutPublicAccessBlock
    \/ PutBucketVersioning
    \/ ListHostedZones
    \/ ListRecords
    \/ HeadObject
    \/ UploadFile

InitLive ==
    /\ Init
    /\ s3_bucket_folder = None
    /\ s3_bucket_region = "us-east-1"

NextLive ==
    \/ Invoke
    \/ HandlerStep

LiveSpec == InitLive /\ [][NextLive]_vars /\ WF_vars(HandlerStep)

----------------------------------------------------------------------------
(* Properties *)

\* the requests of one kind issued for zone k (k = 0: not for a zone)
CallsOf(op, k) == SelectSeq(calls, LAMBDA c : c.op = op /\ c.zone = k)

UploadOps == { "head_object", "upload_file" }
IsComplete(cs) ==
    cs # <<>> /\ cs[Len(cs)].err = "" /\ ~cs[Len(cs)].resp.IsTruncated

ZoneRequestsChained ==
    LET zc == CallsOf("list_hosted_zones_by_name", 0)
    IN  /\ \A i \in 1..Len(zc) :
              IF i = 1 THEN DOMAIN zc[i].req = {}
              ELSE /\ zc[i-1].err = ""
                   /\ zc[i-1].resp.IsTruncated
                   /\ zc[i].req = [DNSName |-> zc[i-1].resp.NextDNSName,
                                   HostedZoneId |-> zc[i-1].resp.NextHostedZoneId]
        /\ IsComplete(zc) =>
              /\ pc # "list_hosted_zones_by_name"
              /\ hosted_zones = Concat([i \in 1..Len(zc) |-> zc[i].resp.HostedZones])

RecordRequestsChained(k) ==
    LET rc == CallsOf("list_resource_record_sets", k)
        all == Concat([i \in 1..Len(rc) |-> rc[i].resp.ResourceRecordSets])
    IN  /\ \A i \in 1..Len(rc) :
              IF i = 1 THEN rc[i].req = [HostedZoneId |-> hosted_zones[k].Id]
              ELSE /\ rc[i-1].err = ""
                   /\ rc[i-1].resp.IsTruncated
                   /\ rc[i].req = [HostedZoneId |-> hosted_zones[k].Id,
                                   StartRecordName |-> rc[i-1].resp.NextRecordName,
                                   StartRecordType |-> rc[i-1].resp.NextRecordType]
        /\ IsComplete(rc) =>
              /\ (k = zi => pc # "list_resource_record_sets" /\ zone_records = all)
              /\ \A i \in 1..Len(calls) :
                    (calls[i].zone = k /\ calls[i].op \in UploadOps
                        /\ calls[i].ext = "json")
                    => calls[i].req.file.data = all

(* C1: a listing the service answers in N pages (truncated on all but the  *)
(* last) takes exactly N requests, the first without a cursor and each     *)
(* later one with the cursor of the previous response, and yields the      *)
(* pages concatenated in order; for zones and for the records of a zone.   *)
C1_PaginationComplete ==
    /\ ZoneRequestsChained
    /\ \A k \in 1..Len(hosted_zones) : RecordRequestsChained(k)

C1_Witness ==
    /\ pc = "done"
    /\ Len(CallsOf("list_hosted_zones_by_name", 0)) >= 2
    /\ \E k \in 1..Len(hosted_zones) :
          /\ Len(CallsOf("list_resource_record_sets", k)) >= 2
          /\ Len(zone_records) >= 2

ProbeOps == { "head_bucket", "get_bucket_versioning" }
MutatingOps == { "create_bucket", "put_public_access_block",
                 "put_bucket_versioning" }

ProvisionFailed ==
    \E i \in 1..Len(calls) :
       \/ calls[i].op \in ProbeOps /\ calls[i].err \notin { "", "404" }
       \/ /\ calls[i].op = "get_bucket_versioning"
          /\ calls[i].err = ""
          /\ (bucket_at_entry.Status = "Enabled") # s3_bucket_versioned

(* C2: when the probe of the bucket fails with an error other than         *)
(* not-found, or the existing bucket's versioning differs from the         *)
(* configured one, the invocation ends in failure having issued nothing    *)
(* but the probing requests.                                               *)
C2_ProvisionFailureHalts ==
    ProvisionFailed =>
        /\ pc \in { "returned_false", "thrown" }
        /\ \A i \in 1..Len(calls) : calls[i].op \in ProbeOps
        /\ bucket = bucket_at_entry

C2_Witness ==
    /\ pc = "thrown"
    /\ bucket_at_entry.exists
    /\ bucket_at_entry.Status = "Enabled"
    /\ ~s3_bucket_versioned
    /\ zones_db # <<>>
    /\ ProvisionFailed

\* successful upload_file requests for key
Puts(key) ==
    Cardinality({ i \in 1..Len(calls) :
                    /\ calls[i].op = "upload_file"
                    /\ calls[i].err = ""
                    /\ calls[i].req.Key = key })

(* C3: in a versioned store, two consecutive upload_to_s3 calls for a key  *)
(* that was absent write once if the two files hold the same bytes and     *)
(* twice if they differ.                                                   *)
C3_UploadTwice ==
    ( /\ s3_bucket_versioned
      /\ Len(uploads) = 2
      /\ pc = "upload_returned"
      /\ uploads[1].key = uploads[2].key )
    => Puts(uploads[1].key) =
          IF uploads[1].content = uploads[2].content THEN 1 ELSE 2

(* C4: create_s3_bucket on a bucket that exists with the configured        *)
(* versioning only reads: it issues no create_bucket,                      *)
(* put_public_access_block or put_bucket_versioning and leaves the bucket  *)
(* as it found it.                                                         *)
C4_ProvisionReadOnly ==
    ( /\ pc # "idle"
      /\ bucket_at_entry.exists
      /\ (bucket_at_entry.Status = "Enabled") = s3_bucket_versioned )
    => /\ bucket = bucket_at_entry
       /\ \A i \in 1..Len(calls) : calls[i].op \notin MutatingOps

\* the second invocation finds the bucket the first one created (and
\* failed to lock down) and goes on to the zones
C4_Witness ==
    /\ runs = 2
    /\ bucket_at_entry.exists
    /\ ~bucket_at_entry.PublicAccessBlock
    /\ (bucket_at_entry.Status = "Enabled") = s3_bucket_versioned
    /\ pc = "done"
    /\ Len(calls) > 2

UploadIssued ==
    \/ pc \in UploadOps
    \/ \E i \in 1..Len(calls) : calls[i].op \in UploadOps

(* C5: whenever the invocation issues head_object or upload_file, the      *)
(* bucket's live versioning equals the configured versioning.              *)
C5_VersioningMatchesAtUpload ==
    UploadIssued => (bucket.Status = "Enabled") = s3_bucket_versioned

C5_Witness ==
    /\ s3_bucket_versioned
    /\ ~bucket_at_entry.exists
    /\ \E i \in 1..Len(calls) : calls[i].op = "create_bucket"
    /\ \E i \in 1..Len(calls) : calls[i].op = "upload_file" /\ calls[i].err = ""

\* head_object found the key absent, or present with another checksum
Differs(c) ==
    \/ c.err = "404"
    \/ c.err = "" /\ c.resp.ETag # [quoted |-> [alg |-> "md5", of |-> c.req.file]]

(* C6: not versioned, upload_to_s3 issues upload_file at once and never    *)
(* head_object; versioned, it issues upload_file if and only if            *)
(* head_object answered not-found or an ETag other than the quoted MD5 of  *)
(* the file.                                                               *)
C6_WriteDecision ==
    /\ ~s3_bucket_versioned =>
          /\ \A i \in 1..Len(calls) : calls[i].op # "head_object"
          /\ \A u \in 1..Len(uploads) :
                IF uploads[u].first <= Len(calls)
                THEN /\ calls[uploads[u].first].op = "upload_file"
                     /\ calls[uploads[u].first].req.Key = uploads[u].key
                ELSE pc = "upload_file"
    /\ s3_bucket_versioned =>
          \A i \in 1..Len(calls) :
             /\ calls[i].op = "upload_file" =>
                   /\ i > 1
                   /\ calls[i-1].op = "head_object"
                   /\ calls[i-1].req.Key = calls[i].req.Key
                   /\ Differs(calls[i-1])
             /\ calls[i].op = "head_object" =>
                   IF i < Len(calls)
                   THEN Differs(calls[i]) <=>
                           /\ calls[i+1].op = "upload_file"
                           /\ calls[i+1].req.Key = calls[i].req.Key
                   ELSE Differs(calls[i]) <=> pc = "upload_file"

\* a second upload of the same bytes was skipped
C6_Witness ==
    /\ s3_bucket_versioned
    /\ pc = "upload_returned"
    /\ Len(uploads) = 2
    /\ calls[Len(calls)].op = "head_object"
    /\ calls[Len(calls)].err = ""
    /\ ~Differs(calls[Len(calls)])
    /\ Puts(uploads[2].key) = 1

\* name without its trailing dot
NoDot(name) ==
    CHOOSE s \in { SubSeq(name, 1, i) : i \in 0..Len(name) } : s \o <<".">> = name

\* [root folder/]T/ for the time stamp T of the current invocation
RunPrefix ==
    (IF s3_bucket_folder = None THEN <<>> ELSE s3_bucket_folder \o <<"/">>)
    \o time_stamp \o <<"/">>

\* [root folder/]T/<name without dot>/<name><ext> for the k-th zone
ExpectedKey(k, ext) ==
    RunPrefix \o NoDot(hosted_zones[k].Name) \o <<"/">>
    \o hosted_zones[k].Name \o <<ext>>

KeysCarryTimeStamp ==
    \A i \in 1..Len(calls) :
       calls[i].op \in UploadOps
       => calls[i].req.Key = ExpectedKey(calls[i].zone, calls[i].ext)

(* C7: every key an invocation reads or writes is                          *)
(* [root folder/]T/<zone name without dot>/<zone name><ext> with T its one *)
(* time stamp, which is set when the invocation starts, from the clock at  *)
(* that moment, and never changes while it runs.                           *)
C7_OneTimeStamp ==
    /\ []KeysCarryTimeStamp
    /\ [][ time_stamp' # time_stamp
           => /\ pc \in Returned
              /\ pc' = "head_bucket"
              /\ time_stamp' = << Stamps[clock + 1] >> ]_vars

\* two zones were written while the clock moved on
C7_Witness ==
    /\ pc = "done"
    /\ Len(hosted_zones) >= 2
    /\ time_stamp # << Stamps[clock + 1] >>
    /\ \E i \in 1..Len(calls) : calls[i].op = "upload_file" /\ calls[i].zone = 2

\* the current version of the object at key
Current(key) == objects[key][Len(objects[key])]

(* C8: an invocation that completes over N zones leaves 2N objects under   *)
(* its time stamp prefix, a CSV and a JSON per zone, each holding that     *)
(* zone's serialised records, and no two zones share a key.                *)
C8_TwoObjectsPerZone ==
    pc = "done" =>
       LET N == Len(hosted_zones)
       IN  /\ Cardinality({ k \in DOMAIN objects :
                              /\ Len(k) >= Len(RunPrefix)
                              /\ SubSeq(k, 1, Len(RunPrefix)) = RunPrefix }) = 2 * N
           /\ \A j, k \in 1..N :
                 j # k => ExpectedKey(j, "csv") # ExpectedKey(k, "csv")
           /\ \A k \in 1..N :
                 LET zone == hosted_zones[k]
                 IN  /\ ExpectedKey(k, "csv") \in DOMAIN objects
                     /\ ExpectedKey(k, "json") \in DOMAIN objects
                     /\ Current(ExpectedKey(k, "csv")).Body.data =
                           <<Header>> \o DataRows(RecordsOf(zone.Id))
                     /\ Current(ExpectedKey(k, "json")).Body.data =
                           RecordsOf(zone.Id)

\* upload_to_s3 for (zone k, ext) returned before the j-th request
Finished(k, ext, j) ==
    \E m \in 1..(j - 1) :
       /\ calls[m].zone = k
       /\ calls[m].ext = ext
       /\ calls[m].err = ""
       /\ \/ calls[m].op = "upload_file"
          \/ calls[m].op = "head_object" /\ ~Differs(calls[m])

(* C9: a failing request made for zone k (record listing, head_object with *)
(* an error other than not-found, upload_file) ends the invocation with an *)
(* exception: it is the last request, and every zone before k has both     *)
(* files uploaded.                                                         *)
C9_ZoneFailureHalts ==
    \A i \in 1..Len(calls) :
       (calls[i].zone >= 1 /\ calls[i].err \notin { "", "404" })
       => /\ pc = "thrown"
          /\ i = Len(calls)
          /\ \A j \in 1..(calls[i].zone - 1) :
                \A ext \in { "csv", "json" } :
                   /\ Finished(j, ext, i)
                   /\ ExpectedKey(j, ext) \in DOMAIN objects

\* the second zone fails at its JSON upload
C9_Witness ==
    /\ pc = "thrown"
    /\ calls # <<>>
    /\ calls[Len(calls)].zone = 2
    /\ calls[Len(calls)].op = "upload_file"
    /\ calls[Len(calls)].ext = "json"
    /\ calls[Len(calls)].err = OtherError

Stage(c) ==
    IF c.op \in ProbeOps \cup MutatingOps THEN 1
    ELSE IF c.op = "list_hosted_zones_by_name" THEN 2
    ELSE 3

Step(c) ==
    IF c.op = "list_resource_record_sets" THEN 1
    ELSE IF c.ext = "csv" THEN 2
    ELSE 3

(* C10: the requests of an invocation come in the order provisioning, zone *)
(* listing, then zone by zone in listing order: record listing to          *)
(* completion, CSV upload, JSON upload.  Nothing is requested for a zone   *)
(* before the JSON upload of the previous zone returned, and no zone is    *)
(* listed after the first record listing.                                  *)
C10_Sequential ==
    /\ \A i, j \in 1..Len(calls) :
          i < j =>
             /\ Stage(calls[i]) <= Stage(calls[j])
             /\ (Stage(calls[i]) = 3 /\ Stage(calls[j]) = 3) =>
                   \/ calls[i].zone < calls[j].zone
                   \/ /\ calls[i].zone = calls[j].zone
                      /\ Step(calls[i]) <= Step(calls[j])
             /\ ( /\ calls[i].op \in UploadOps
                  /\ calls[j].op \in UploadOps
                  /\ calls[i].zone = calls[j].zone
                  /\ calls[i].ext = calls[j].ext )
                => calls[i].op = "head_object" /\ calls[j].op = "upload_file"
    /\ \A j \in 1..Len(calls) :
          Stage(calls[j]) = 3 =>
             /\ calls[j].zone \in 1..Len(zones_db)
             /\ \E m \in 1..(j - 1) :
                   /\ calls[m].op = "list_hosted_zones_by_name"
                   /\ calls[m].err = ""
                   /\ ~calls[m].resp.IsTruncated
             /\ calls[j].zone > 1 => Finished(calls[j].zone - 1, "json", j)
             /\ calls[j].op = "list_resource_record_sets" =>
                   calls[j].req.HostedZoneId = zones_db[calls[j].zone].Id
             /\ calls[j].op \in UploadOps =>
                   \E m \in 1..(j - 1) :
                      /\ calls[m].op = "list_resource_record_sets"
                      /\ calls[m].zone = calls[j].zone
                      /\ calls[m].err = ""
                      /\ ~calls[m].resp.IsTruncated
             /\ (calls[j].op \in UploadOps /\ calls[j].ext = "json") =>
                   Finished(calls[j].zone, "csv", j)

C10_Witness ==
    /\ pc = "done"
    /\ Len(hosted_zones) = 2
    /\ s3_bucket_versioned
    /\ \E i \in 1..Len(calls) : calls[i].op = "create_bucket"
    /\ \E i \in 1..Len(calls) :
          calls[i].op = "list_hosted_zones_by_name" /\ calls[i].resp.IsTruncated
    /\ \E i \in 1..Len(calls) :
          calls[i].op = "upload_file" /\ calls[i].zone = 2 /\ calls[i].ext = "json"

----------------------------------------------------------------------------
(* The encoder and the serializer, under EncoderSpec *)

HasAlias(record) == "AliasTarget" \in DOMAIN record
HasValues(record) == "ResourceRecords" \in DOMAIN record
Shaped(record) == HasAlias(record) \/ HasValues(record)

\* the values a record stands for: its alias target as one string, else its
\* plain values in order
ValuesOf(record) ==
    IF HasAlias(record)
    THEN << << "ALIAS", ":", record.AliasTarget.HostedZoneId, ":",
               record.AliasTarget.DNSName >> >>
    ELSE [i \in 1..Len(record.ResourceRecords) |->
             record.ResourceRecords[i].Value]

\* the (record, value) pairs of the records from the i-th on, in record
\* order and value order
RECURSIVE Pairs(_, _)
Pairs(records, i) ==
    IF i > Len(records) THEN <<>>
    ELSE [j \in 1..Len(ValuesOf(records[i])) |->
             [index |-> i, record |-> records[i],
              value |-> ValuesOf(records[i])[j]]]
         \o Pairs(records, i + 1)

CsvPath == <<"/tmp/">> \o hosted_zones[zi].Name \o <<"csv">>
JsonPath == <<"/tmp/">> \o hosted_zones[zi].Name \o <<"json">>
CsvCalled == pc \in { "csv_written", "json_written", "thrown" }

(* C11: for a list of records that each carry an alias target or plain     *)
(* values, the CSV file is the header row (also when the list is empty)    *)
(* followed by exactly one row per (record, value) pair, in record order   *)
(* and value order; the row carries the name and type of its record and    *)
(* the value, and the rows of one record differ in the VALUE column only.  *)
C11_OneRowPerValue ==
    (CsvCalled /\ \A i \in 1..Len(zone_records) : Shaped(zone_records[i]))
    => /\ pc # "thrown"
       /\ CsvPath \in DOMAIN tmp
       /\ LET rows == tmp[CsvPath].data
              pairs == Pairs(zone_records, 1)
          IN  /\ tmp[CsvPath].fmt = "csv"
              /\ Len(rows) = 1 + Len(pairs)
              /\ rows[1] = << "NAME", "TYPE", <<"VALUE">>, "TTL", "REGION",
                              "WEIGHT", "SETID", "FAILOVER", "EVALUATE_HEALTH" >>
              /\ \A p \in 1..Len(pairs) :
                    /\ Len(rows[p + 1]) = 9
                    /\ rows[p + 1][1] = pairs[p].record.Name
                    /\ rows[p + 1][2] = pairs[p].record.Type
                    /\ rows[p + 1][3] = pairs[p].value
              /\ \A p, q \in 1..Len(pairs) :
                    pairs[p].index = pairs[q].index =>
                       \A c \in (1..9) \ {3} : rows[p + 1][c] = rows[q + 1][c]

C11_Witness ==
    /\ pc = "csv_written"
    /\ zone_records = << RecMX, RecAlias >>
    /\ Len(tmp[CsvPath].data) = 4

(* C12: get_record_value returns, for a record with an alias target, the   *)
(* single string ALIAS:<hosted zone id>:<DNS name>, whatever plain values  *)
(* the record has, and for a record without alias target its plain values *)
(* in their order.                                                         *)
C12_ValuesOf ==
    \A i \in 1..Len(returned) :
       LET record == zone_records[i]
       IN  /\ HasAlias(record) =>
                 returned[i] =
                    [raised |-> "",
                     value |-> << << "ALIAS", ":",
                                     record.AliasTarget.HostedZoneId, ":",
                                     record.AliasTarget.DNSName >> >>]
           /\ (~HasAlias(record) /\ HasValues(record)) =>
                 /\ returned[i].raised = ""
                 /\ Len(returned[i].value) = Len(record.ResourceRecords)
                 /\ \A j \in 1..Len(record.ResourceRecords) :
                       returned[i].value[j] = record.ResourceRecords[j].Value

C12_Witness ==
    /\ zone_records = << RecBoth, RecNS >>
    /\ Len(returned) = 2
    /\ Len(returned[1].value) = 1
    /\ Len(returned[2].value) = 3

\* the index of the first record of neither shape, 0 if there is none
FirstUnshaped ==
    IF \A i \in 1..Len(zone_records) : Shaped(zone_records[i]) THEN 0
    ELSE Least({ i \in 1..Len(zone_records) : ~Shaped(zone_records[i]) })

(* C13, as the specification states it: a record with neither an alias     *)
(* target nor a list of plain values raises no error; get_record_value     *)
(* returns no value for it and the CSV serialization goes on to the end.   *)
C13_NeitherIsNoValue ==
    /\ \A i \in 1..Len(returned) :
          ~Shaped(zone_records[i]) => returned[i] = [raised |-> "", value |-> <<>>]
    /\ CsvCalled => pc # "thrown"

(* C13, amended: get_record_value raises KeyError for a record with        *)
(* neither an alias target nor a list of plain values.  write_zone_to_csv  *)
(* raises with it: the file keeps the header and the rows of the records   *)
(* before that one, gets no row for it nor for any record after it, and    *)
(* the JSON file is not written.                                           *)
C13_NeitherRaises ==
    /\ \A i \in 1..Len(returned) :
          ~Shaped(zone_records[i]) =>
             returned[i] = [raised |-> "KeyError", value |-> <<>>]
    /\ (CsvCalled /\ FirstUnshaped # 0) =>
          /\ pc = "thrown"
          /\ JsonPath \notin DOMAIN tmp
          /\ CsvPath \in DOMAIN tmp
          /\ LET rows == tmp[CsvPath].data
                 pairs == Pairs(SubSeq(zone_records, 1, FirstUnshaped - 1), 1)
             IN  /\ Len(rows) = 1 + Len(pairs)
                 /\ \A p \in 1..Len(pairs) :
                       /\ rows[p + 1][1] = pairs[p].record.Name
                       /\ rows[p + 1][3] = pairs[p].value

C13_Witness ==
    /\ pc = "thrown"
    /\ zone_records = << RecNS, RecNeither >>
    /\ Len(returned) = 2
    /\ returned[2].raised = "KeyError"
    /\ Len(tmp[CsvPath].data) = 4

----------------------------------------------------------------------------
(* The result of lambda_handler, under Spec *)

\* the number a Python value compares equal to: True == 1 and False == 0
PyNumber(v) ==
    IF v.type = "bool" THEN (IF v.repr = "True" THEN "1" ELSE "0") ELSE v.repr

(* C14, as the specification states it: a successful run returns the       *)
(* number of zones processed, which is the number of zones the listing     *)
(* returned.                                                               *)
C14_ReturnsZoneCount ==
    pc = "done" =>
       /\ result.type \in { "int", "bool" }
       /\ PyNumber(result) = Digits[Len(hosted_zones) + 1]

(* C14, amended: a successful run returns the boolean True whatever the    *)
(* number of zones the listing returned; a run that fails provisioning     *)
(* with a client error returns False, and a run that raises returns        *)
(* nothing.                                                                *)
C14_ReturnsTrue ==
    /\ pc = "done" => result = [type |-> "bool", repr |-> "True"]
    /\ pc = "returned_false" => result = [type |-> "bool", repr |-> "False"]
    /\ pc \notin { "done", "returned_false" } => result = [type |-> "", repr |-> ""]

C14_Witness ==
    /\ pc = "done"
    /\ Len(hosted_zones) = 2
    /\ result = [type |-> "bool", repr |-> "True"]
    /\ \E i \in 1..Len(calls) :
          calls[i].op = "upload_file" /\ calls[i].zone = 2 /\ calls[i].ext = "json"

----------------------------------------------------------------------------
(* Provisioning of a missing bucket, under Spec *)

PastProvisioning ==
    pc \in { "list_hosted_zones_by_name", "list_resource_record_sets",
             "head_object", "upload_file", "done" }

(* C15: a head_bucket answered not-found is followed by create_bucket and  *)
(* nothing else, and an invocation calls create_bucket at most once.  The  *)
(* successful create_bucket is followed at once by put_public_access_block *)
(* and then, if versioning is desired, by put_bucket_versioning            *)
(* ("Enabled"): a listing or upload request comes only after these         *)
(* succeeded.  Whenever the invocation is past provisioning with a bucket  *)
(* it created, public access to the bucket is blocked and its versioning   *)
(* is as desired.                                                          *)
C15_CreatedBucketLockedDown ==
    /\ \A i \in 1..Len(calls) :
          (calls[i].op = "head_bucket" /\ calls[i].err = "404" /\ i < Len(calls))
          => calls[i + 1].op = "create_bucket"
    /\ Cardinality({ i \in 1..Len(calls) : calls[i].op = "create_bucket" }) <= 1
    /\ \A c \in 1..Len(calls) :
          (calls[c].op = "create_bucket" /\ calls[c].err = "") =>
             /\ c > 1 /\ calls[c - 1].op = "head_bucket"
             /\ calls[c - 1].err = "404"
             /\ ~bucket_at_entry.exists
             /\ c < Len(calls) => calls[c + 1].op = "put_public_access_block"
             /\ (c + 1 < Len(calls) /\ s3_bucket_versioned) =>
                   /\ calls[c + 2].op = "put_bucket_versioning"
                   /\ calls[c + 2].req.Status = "Enabled"
             /\ \A j \in 1..Len(calls) :
                   calls[j].op \notin ProbeOps \cup MutatingOps =>
                      /\ j > c + (IF s3_bucket_versioned THEN 2 ELSE 1)
                      /\ \A m \in (c + 1)..(j - 1) : calls[m].err = ""
                             \/ calls[m].op \notin MutatingOps
             /\ PastProvisioning =>
                   /\ bucket.exists
                   /\ bucket.PublicAccessBlock
                   /\ s3_bucket_versioned <=> bucket.Status = "Enabled"

C15_Witness ==
    /\ pc = "upload_file"
    /\ s3_bucket_versioned
    /\ ~bucket_at_entry.exists
    /\ calls[2].op = "create_bucket"
    /\ calls[3].op = "put_public_access_block"
    /\ calls[4].op = "put_bucket_versioning"
    /\ bucket.PublicAccessBlock
    /\ bucket.Status = "Enabled"

----------------------------------------------------------------------------
(* Termination, under LiveSpec *)

(* The number of pages the service answers for the records of a zone when  *)
(* each request carries the cursor of the previous response, from cursor   *)
(* on; 0 if the chain does not end within fuel pages, which is the case    *)
(* exactly if a cursor repeats when fuel exceeds the number of records.    *)
RECURSIVE ChainPages(_, _, _)
ChainPages(zone_id, cursor, fuel) ==
    IF fuel = 0 THEN 0
    ELSE LET r == ListResourceRecordSets(zone_id, cursor, max_items)
         IN  IF ~r.IsTruncated THEN 1
             ELSE LET rest == ChainPages(zone_id,
                                 << r.NextRecordName, r.NextRecordType >>,
                                 fuel - 1)
                  IN  IF rest = 0 THEN 0 ELSE rest + 1

RecordChain(zone_id) == ChainPages(zone_id, None, Len(RecordsOf(zone_id)) + 1)
Endless(zone_id) == RecordChain(zone_id) = 0

\* the record requests made for the k-th zone
RecordRequests(k) ==
    { i \in 1..Len(calls) :
         calls[i].op = "list_resource_record_sets" /\ calls[i].zone = k }

\* the invocation was ended by the recursion limit: it raised although its
\* last request, a listing request, succeeded with a truncated page
RecursionCut ==
    /\ pc = "thrown"
    /\ calls # <<>>
    /\ calls[Len(calls)].err = ""
    /\ calls[Len(calls)].op \in { "list_hosted_zones_by_name",
                                   "list_resource_record_sets" }
    /\ calls[Len(calls)].resp.IsTruncated

(* C16, as the specification states it: with finite cursor chains every    *)
(* started run terminates; and a server that answers truncated forever     *)
(* with a repeated cursor makes the fetcher issue requests without end, so *)
(* that the listing of such a zone is left only when a request fails.      *)
C16_EndlessRequests ==
    /\ (pc \notin Returned /\ \A i \in 1..Len(zones_db) : ~Endless(zones_db[i].Id))
          ~> (pc \in Returned)
    /\ [][ ( /\ pc = "list_resource_record_sets"
             /\ Endless(hosted_zones[zi].Id)
             /\ pc' # pc )
           => calls'[Len(calls')].err # "" ]_vars

(* C16, amended: every started run terminates, done or failed, whatever    *)
(* the cursor chains.  The fetcher has no cycle detection but nests one    *)
(* call per page: on a chain that repeats a cursor it issues requests      *)
(* until MaxPages calls are nested and the run then fails with             *)
(* RecursionError, without any upload for that zone.  A chain that ends    *)
(* within MaxPages pages takes as many requests as it has pages at most    *)
(* and is never cut.                                                       *)
C16_RunTerminates ==
    /\ (pc \notin Returned) ~> (pc \in Returned)
    /\ [](\A k \in 1..Len(hosted_zones) :
            LET n == RecordChain(hosted_zones[k].Id)
                requests == RecordRequests(k)
            IN  /\ Cardinality(requests) <= MaxPages
                /\ n \in 1..MaxPages => Cardinality(requests) <= n
                /\ n = 0 =>
                      /\ \A i \in requests :
                            calls[i].err = "" => calls[i].resp.IsTruncated
                      /\ \A i \in 1..Len(calls) :
                            calls[i].op \in UploadOps => calls[i].zone # k
                      /\ ( /\ Cardinality(requests) = MaxPages
                           /\ calls[Len(calls)].err = "" )
                         => RecursionCut)
    /\ [](RecursionCut =>
            \E k \in 1..Len(hosted_zones) :
               /\ Cardinality(RecordRequests(k)) = MaxPages
               /\ RecordChain(hosted_zones[k].Id) \notin 1..MaxPages)

C16_Witness ==
    /\ RecursionCut
    /\ Endless(hosted_zones[zi].Id)
    /\ Cardinality(RecordRequests(zi)) = MaxPages
    /\ calls[Len(calls)].req = calls[Len(calls) - 1].req

----------------------------------------------------------------------------
(* The stored content after upload_to_s3, under UploadSpec *)

\* the last upload_to_s3 call returned without writing
Skipped ==
    /\ calls # <<>>
    /\ calls[Len(calls)].op = "head_object"
    /\ calls[Len(calls)].err = ""

(* C17: whenever upload_to_s3 returns without raising, with or without     *)
(* versioning, after a write or after a skip, the current version of the   *)
(* object at the key holds exactly the content of the local file; this     *)
(* holds for objects of any size, those whose ETag is the MD5 of their     *)
(* content included.  A skip leaves the object as it was, and that is the  *)
(* content of the file.                                                    *)
C17_StoredIsLocal ==
    pc = "upload_returned" =>
       /\ up.key \in DOMAIN objects
       /\ Current(up.key).Body = tmp[up.filename]
       /\ Current(up.key).Body = uploads[Len(uploads)].content
       /\ Skipped =>
             /\ s3_bucket_versioned
             /\ Puts(up.key) >= 1
             /\ Current(up.key).ETag = calls[Len(calls)].resp.ETag

C17_Witness ==
    /\ pc = "upload_returned"
    /\ s3_bucket_versioned
    /\ Len(uploads) = 2
    /\ uploads[1].key = uploads[2].key
    /\ uploads[1].content # uploads[2].content
    /\ Len(objects[up.key]) = 2
    /\ objects[up.key][1].Body = uploads[1].content
    /\ Current(up.key).Body = uploads[2].content

----------------------------------------------------------------------------
(* What the pipelines of two zones share, under Spec *)

\* the temporary files the pipeline of zone writes
TempPaths(zone) ==
    { write_zone_to_csv(zone, <<>>).zone_file_name,
      write_zone_to_json(zone, <<>>).zone_file_name }

\* the object keys the pipeline of zone uploads to
ObjectKeys(zone) ==
    { UploadKey(gen_folder(zone, s3_bucket_folder, time_stamp),
                zone.Name \o <<ext>>) : ext \in { "csv", "json" } }

(* C18: the pipelines of two different zones of one invocation use         *)
(* disjoint temporary files and disjoint object keys, so that no request   *)
(* of one zone names the key of a request of another zone.                 *)
C18_ZonesShareNothing ==
    /\ \A j, k \in 1..Len(hosted_zones) :
          j # k =>
             /\ TempPaths(hosted_zones[j]) \cap TempPaths(hosted_zones[k]) = {}
             /\ ObjectKeys(hosted_zones[j]) \cap ObjectKeys(hosted_zones[k]) = {}
    /\ \A i, j \in 1..Len(calls) :
          ( /\ calls[i].op \in UploadOps
            /\ calls[j].op \in UploadOps
            /\ calls[i].zone # calls[j].zone )
          => calls[i].req.Key # calls[j].req.Key

====
